---------------------------- MODULE Spec2Model ----------------------------
(***************************************************************************)
(* State-machine model of the VGA text terminal and the polled keyboard    *)
(* path of src/src/kernel.c (with k_strlen from src/src/k_lib.c).          *)
(*                                                                         *)
(* The C globals terminal_row, terminal_column, terminal_color, the video  *)
(* memory behind terminal_buffer, tabs and current_tab are the variables.  *)
(* Every C function is an operator on a terminal record                    *)
(*   [row, col, color, buf]                                                *)
(* computed the way the C code computes it, and one action applies it to   *)
(* the globals.                                                            *)
(***************************************************************************)
EXTENDS Integers, Sequences, FiniteSets, TLC

VARIABLES
    terminal_row,      \* size_t terminal_row
    terminal_column,   \* size_t terminal_column
    terminal_color,    \* uint8_t terminal_color
    terminal_buffer,   \* the 80x25 cells of video memory terminal_buffer points to
    current_tab,       \* static int current_tab
    kbd_pending,       \* scan codes waiting in the keyboard controller
    pc,                \* position of the caller
    steps,             \* number of calls made so far
    last,              \* the last call and its arguments
    shown              \* the display recorded by the tab round-trip scenario

vars == <<terminal_row, terminal_column, terminal_color, terminal_buffer,
          current_tab, kbd_pending, pc, steps, last, shown>>

---------------------------------------------------------------------------
(* Program constants                                                       *)

VGA_WIDTH == 80

VGA_HEIGHT == 25

TAB_COUNT == 9

SCREEN_CELLS == VGA_WIDTH * VGA_HEIGHT

VGA_COLOR_BLACK == 0

VGA_COLOR_WHITE == 15

Cells == 0 .. (SCREEN_CELLS - 1)

---------------------------------------------------------------------------
(* Bounds of the model                                                     *)

\* calls and key events after the first terminal_init
MaxSteps == 3

\* scan codes the keyboard controller holds at once
MaxPending == 1

\* terminal_putchar calls made beyond one full turn of the grid (WrapSpec)
WrapExtra == 3

---------------------------------------------------------------------------
(* C integer arithmetic                                                    *)

RECURSIVE BitOr(_, _)
BitOr(a, b) ==
    IF a = 0 THEN b
    ELSE IF b = 0 THEN a
    ELSE (IF (a % 2 = 1) \/ (b % 2 = 1) THEN 1 ELSE 0)
         + 2 * BitOr(a \div 2, b \div 2)

RECURSIVE BitAnd(_, _)
BitAnd(a, b) ==
    IF a = 0 \/ b = 0 THEN 0
    ELSE (IF (a % 2 = 1) /\ (b % 2 = 1) THEN 1 ELSE 0)
         + 2 * BitAnd(a \div 2, b \div 2)

\* conversion to unsigned char / uint8_t
ToUChar(c) == c % 256

\* conversion of an unsigned char to (signed) char
ToChar(u) == IF u % 256 >= 128 THEN (u % 256) - 256 ELSE u % 256

\* conversion to uint16_t
ToU16(v) == v % 65536

vga_entry_color(fg, bg) == ToUChar(BitOr(fg, bg * 16))

vga_entry(uc, color) == ToU16(BitOr(ToU16(uc), ToU16(color) * 256))

---------------------------------------------------------------------------
(* The scan-code table                                                     *)

keyboard_map_init ==
    << 0, 27, 49, 50, 51, 52, 53, 54, 55, 56,
       57, 48, 45, 61, 8,
       9,
       113, 119, 101, 114,
       116, 121, 117, 105, 111, 112, 91, 93, 10,
       0,
       97, 115, 100, 102, 103, 104, 106, 107, 108, 59,
       39, 96, 0,
       92, 122, 120, 99, 118, 98, 110,
       109, 44, 46, 47, 0,
       42,
       0,
       32,
       0,
       -1,
       -2, -3, -4, -5, -6, -7, -8, -9,
       0,
       0,
       0,
       0,
       0,
       0,
       45,
       0,
       0,
       0,
       43,
       0,
       0,
       0,
       0,
       0,
       0, 0, 0,
       0,
       0,
       0 >>

\* unsigned char keyboard_map[128]: the initialisers converted to unsigned
\* char, the entries without an initialiser zero
keyboard_map ==
    [s \in 0 .. 127 |->
        IF s + 1 <= Len(keyboard_map_init)
        THEN ToUChar(keyboard_map_init[s + 1])
        ELSE 0]

---------------------------------------------------------------------------
(* The terminal functions, on a record [row, col, color, buf]              *)

Term ==
    [row |-> terminal_row, col |-> terminal_column,
     color |-> terminal_color, buf |-> terminal_buffer]

\* as terminal_init, filling with the colour in use instead of setting the
\* default one
terminal_init_keeps_color(T) ==
    LET blank == vga_entry(32, T.color)
    IN  [row |-> 0, col |-> 0, color |-> T.color,
         buf |-> [i \in Cells |-> blank]]

terminal_init(T) ==
    LET white_on_black == vga_entry_color(VGA_COLOR_WHITE, VGA_COLOR_BLACK)
        blank == vga_entry(32, white_on_black)
    IN  [row |-> 0, col |-> 0, color |-> white_on_black,
         buf |-> [i \in Cells |-> blank]]

\* as terminal_setcolor, repainting the attribute of every cell
terminal_setcolor_repaints(T, color) ==
    [T EXCEPT !.color = ToUChar(color),
              !.buf = [i \in Cells |-> (T.buf[i] % 256) + 256 * ToUChar(color)]]

terminal_setcolor(T, color) == [T EXCEPT !.color = ToUChar(color)]

\* as terminal_putentryat, leaving the cursor on the cell written
terminal_putentryat_moves_cursor(T, c, color, x, y) ==
    [T EXCEPT !.buf[y * VGA_WIDTH + x] = vga_entry(ToUChar(c), color),
              !.col = x, !.row = y]

\* as terminal_putentryat, with the char widened to 16 bits with its sign
\* instead of converted to unsigned char
terminal_putentryat_sign_extends(T, c, color, x, y) ==
    [T EXCEPT !.buf[y * VGA_WIDTH + x] = vga_entry(ToU16(c), color)]

terminal_putentryat(T, c, color, x, y) ==
    [T EXCEPT !.buf[y * VGA_WIDTH + x] = vga_entry(ToUChar(c), color)]

\* as terminal_putchar, without the reset of terminal_row at the last row
terminal_putchar_no_row_reset(T, c) ==
    LET W == terminal_putentryat(T, c, T.color, T.col, T.row)
    IN  IF W.col + 1 = VGA_WIDTH
        THEN [W EXCEPT !.col = 0, !.row = W.row + 1]
        ELSE [W EXCEPT !.col = W.col + 1]

\* as terminal_putchar, without the increment of terminal_row
terminal_putchar_no_row_advance(T, c) ==
    LET W == terminal_putentryat(T, c, T.color, T.col, T.row)
    IN  IF W.col + 1 = VGA_WIDTH
        THEN [W EXCEPT !.col = 0]
        ELSE [W EXCEPT !.col = W.col + 1]

\* as terminal_putchar, advancing the cursor before the cell is written
terminal_putchar_advance_first(T, c) ==
    LET A == IF T.col + 1 = VGA_WIDTH
             THEN IF T.row + 1 = VGA_HEIGHT
                  THEN [T EXCEPT !.col = 0, !.row = 0]
                  ELSE [T EXCEPT !.col = 0, !.row = T.row + 1]
             ELSE [T EXCEPT !.col = T.col + 1]
    IN  terminal_putentryat(A, c, A.color, A.col, A.row)

\* as terminal_putchar, with '\n' moving the cursor to the start of the
\* next row instead of being stored
terminal_putchar_newline(T, c) ==
    IF c = 10
    THEN [T EXCEPT !.col = 0,
                   !.row = IF T.row + 1 = VGA_HEIGHT THEN 0 ELSE T.row + 1]
    ELSE LET W == terminal_putentryat(T, c, T.color, T.col, T.row)
         IN  IF W.col + 1 = VGA_WIDTH
             THEN IF W.row + 1 = VGA_HEIGHT
                  THEN [W EXCEPT !.col = 0, !.row = 0]
                  ELSE [W EXCEPT !.col = 0, !.row = W.row + 1]
             ELSE [W EXCEPT !.col = W.col + 1]

terminal_putchar(T, c) ==
    LET W == terminal_putentryat(T, c, T.color, T.col, T.row)
    IN  IF W.col + 1 = VGA_WIDTH
        THEN IF W.row + 1 = VGA_HEIGHT
             THEN [W EXCEPT !.col = 0, !.row = 0]
             ELSE [W EXCEPT !.col = 0, !.row = W.row + 1]
        ELSE [W EXCEPT !.col = W.col + 1]

\* data is the memory at the pointer: data[i + 1] is the C data[i].
\* The iterations lo <= i < hi of the loop of terminal_write, in order. The
\* range is halved, and the first half is evaluated (the test on its col)
\* before the second starts, so that the evaluation does not nest once per
\* character.
RECURSIVE terminal_write_range(_, _, _, _)
terminal_write_range(T, data, lo, hi) ==
    IF hi <= lo THEN T
    ELSE IF hi = lo + 1 THEN terminal_putchar(T, data[lo + 1])
    ELSE LET first == terminal_write_range(T, data, lo, (lo + hi) \div 2)
         IN  IF first.col >= 0
             THEN terminal_write_range(first, data, (lo + hi) \div 2, hi)
             ELSE first

\* as terminal_write, with the loop running while i <= size
terminal_write_inclusive(T, data, size) ==
    terminal_write_range(T, data, 0, size + 1)

terminal_write(T, data, size) == terminal_write_range(T, data, 0, size)

\* as k_strlen, counting up to the last byte of the memory instead of
\* stopping at the first zero byte
k_strlen_to_last_zero(s) == Len(s) - 1

\* while (str[len]) len++: the index of the first zero byte of the memory s
k_strlen(s) ==
    CHOOSE len \in 0 .. (Len(s) - 1) :
        /\ s[len + 1] = 0
        /\ \A j \in 0 .. (len - 1) : s[j + 1] # 0

terminal_writestring(T, data) == terminal_write(T, data, k_strlen(data))

\* as terminal_clear, blanking with the default colour
terminal_clear_default_color(T) ==
    LET blank == vga_entry(32, vga_entry_color(VGA_COLOR_WHITE, VGA_COLOR_BLACK))
    IN  [T EXCEPT !.buf = [i \in Cells |-> blank], !.row = 0, !.col = 0]

terminal_clear(T) ==
    LET blank == vga_entry(32, T.color)
    IN  [T EXCEPT !.buf = [i \in Cells |-> blank], !.row = 0, !.col = 0]

terminal_setpos(T, x, y) == [T EXCEPT !.col = x, !.row = y]

\* as terminal_writestring_at, with the two calls in the other order
terminal_writestring_at_then_setpos(T, str, x, y) ==
    terminal_setpos(terminal_writestring(T, str), x, y)

terminal_writestring_at(T, str, x, y) ==
    terminal_writestring(terminal_setpos(T, x, y), str)

---------------------------------------------------------------------------
(* The keyboard                                                            *)

\* inb(KEYBOARD_STATUS_PORT): bit 0 is set when a scan code is waiting; hi
\* stands for the other bits of the register
StatusRegister(q, hi) == hi + (IF q # << >> THEN 1 ELSE 0)

keyboard_has_data(status) == BitAnd(status, 1)

\* as handle_keyboard, without the test of bit 7: a release is looked up
\* like the press of the same key
handle_keyboard_release_as_press(K, status) ==
    IF keyboard_has_data(status) # 0
    THEN [t |-> terminal_putchar(K.t, ToChar(keyboard_map[Head(K.q) % 128])),
          q |-> Tail(K.q)]
    ELSE K

\* as handle_keyboard, forwarding the scan code instead of the table entry
handle_keyboard_raw_scancode(K, status) ==
    IF keyboard_has_data(status) # 0
    THEN IF BitAnd(Head(K.q), 128) = 0
         THEN [t |-> terminal_putchar(K.t, ToChar(Head(K.q))), q |-> Tail(K.q)]
         ELSE [t |-> K.t, q |-> Tail(K.q)]
    ELSE K

\* as handle_keyboard, reading the data register whenever a scan code is
\* there, whatever the status register says
handle_keyboard_ignores_status(K, status) ==
    IF K.q # << >>
    THEN IF BitAnd(Head(K.q), 128) = 0
         THEN [t |-> terminal_putchar(K.t, ToChar(keyboard_map[Head(K.q)])),
               q |-> Tail(K.q)]
         ELSE [t |-> K.t, q |-> Tail(K.q)]
    ELSE K

\* K is [t |-> the terminal record, q |-> the waiting scan codes];
\* read_keyboard takes the head of q
handle_keyboard(K, status) ==
    IF keyboard_has_data(status) # 0
    THEN LET scancode == Head(K.q)
             rest == Tail(K.q)
         IN  IF BitAnd(scancode, 128) = 0
             THEN [t |-> terminal_putchar(K.t, ToChar(keyboard_map[scancode])),
                   q |-> rest]
             ELSE [t |-> K.t, q |-> rest]
    ELSE K

---------------------------------------------------------------------------
(* The tabs                                                                *)

\* static t_tab tabs[TAB_COUNT]: zero-initialised static storage. No
\* statement of the program assigns to tabs or to one of its fields, so it
\* keeps this value in every state.
tabs ==
    [k \in 0 .. (TAB_COUNT - 1) |->
        [buffer |-> [i \in Cells |-> 0], row |-> 0, col |-> 0, color |-> 0]]

---------------------------------------------------------------------------
(* Inputs of the model                                                     *)

\* what video memory may hold before terminal_init: zeroes, the BIOS's
\* blank screen (0x0720), leftover text
BootScreens ==
    { [i \in Cells |-> 0],
      [i \in Cells |-> 1824],
      [i \in Cells |-> 7936 + 33 + (i % 64)] }

\* char arguments: 'A', '\n', and a code above 127, which a char holds as
\* a negative value
Chars == {65, 10, -56}

\* uint8_t colour arguments other than the default 0x0F
Colors == {30}

StrEmpty == << 0 >>

StrHi == << 72, 105, 0 >>

\* memory that holds more bytes after the first terminator
StrCut == << 65, 0, 66, 0 >>

\* exactly VGA_WIDTH characters
StrLine == [i \in 1 .. (VGA_WIDTH + 1) |-> IF i <= VGA_WIDTH THEN 120 ELSE 0]

Strings == {StrEmpty, StrHi, StrCut, StrLine}

\* in-bounds (x, y)
Positions == { <<0, 0>>, <<VGA_WIDTH - 1, VGA_HEIGHT - 1>>, <<3, 2>> }

Corners == { <<VGA_WIDTH - 1, VGA_HEIGHT - 1>>, <<3, 2>> }

\* scan codes: 'a' pressed, Enter pressed, Control pressed (entry 0), F1
\* pressed (entry -1), a code without an initialiser, 'a' released
ScanCodes == {30, 28, 29, 59, 100, 158}

StatusHighBits == {0, 28}

---------------------------------------------------------------------------
(* The caller: terminal_init first, then any calls                         *)

Apply(T) ==
    /\ terminal_row' = T.row
    /\ terminal_column' = T.col
    /\ terminal_color' = T.color
    /\ terminal_buffer' = T.buf

Call(entry) ==
    /\ pc = "run"
    /\ steps < MaxSteps
    /\ steps' = steps + 1
    /\ last' = entry
    /\ UNCHANGED <<pc, current_tab, shown>>

Init ==
    /\ terminal_row = 0
    /\ terminal_column = 0
    /\ terminal_color = 0
    /\ terminal_buffer \in BootScreens
    /\ current_tab = 0
    /\ kbd_pending = << >>
    /\ pc = "boot"
    /\ steps = 0
    /\ last = << "boot" >>
    /\ shown = << >>

Boot ==
    /\ pc = "boot"
    /\ pc' = "run"
    /\ Apply(terminal_init(Term))
    /\ last' = << "init" >>
    /\ UNCHANGED <<current_tab, kbd_pending, steps, shown>>

TerminalInit ==
    /\ Call(<< "init" >>)
    /\ Apply(terminal_init(Term))
    /\ UNCHANGED kbd_pending

TerminalSetColor ==
    \E color \in Colors :
        /\ Call(<< "setcolor", color >>)
        /\ Apply(terminal_setcolor(Term, color))
        /\ UNCHANGED kbd_pending

TerminalPutEntryAt ==
    \E c \in {65}, color \in Colors, p \in Corners :
        /\ Call(<< "putentryat", c, color, p[1], p[2] >>)
        /\ Apply(terminal_putentryat(Term, c, color, p[1], p[2]))
        /\ UNCHANGED kbd_pending

TerminalPutChar ==
    \E c \in Chars :
        /\ Call(<< "putchar", c >>)
        /\ Apply(terminal_putchar(Term, c))
        /\ UNCHANGED kbd_pending

TerminalWriteString ==
    \E s \in Strings :
        /\ Call(<< "writestring", s >>)
        /\ Apply(terminal_writestring(Term, s))
        /\ UNCHANGED kbd_pending

TerminalClear ==
    /\ Call(<< "clear" >>)
    /\ Apply(terminal_clear(Term))
    /\ UNCHANGED kbd_pending

TerminalSetPos ==
    \E p \in Positions :
        /\ Call(<< "setpos", p[1], p[2] >>)
        /\ Apply(terminal_setpos(Term, p[1], p[2]))
        /\ UNCHANGED kbd_pending

TerminalWriteStringAt ==
    \E s \in {StrHi, StrLine}, p \in Corners :
        /\ Call(<< "writestring_at", s, p[1], p[2] >>)
        /\ Apply(terminal_writestring_at(Term, s, p[1], p[2]))
        /\ UNCHANGED kbd_pending

\* the keyboard controller receives a scan code
KeyEvent ==
    \E sc \in ScanCodes :
        /\ Len(kbd_pending) < MaxPending
        /\ Call(<< "key", sc >>)
        /\ kbd_pending' = Append(kbd_pending, sc)
        /\ UNCHANGED <<terminal_row, terminal_column, terminal_color,
                       terminal_buffer>>

HandleKeyboard ==
    \E hi \in StatusHighBits :
        LET st == StatusRegister(kbd_pending, hi)
            R == handle_keyboard([t |-> Term, q |-> kbd_pending], st)
        IN  /\ Call(<< "handle_keyboard", st, kbd_pending >>)
            /\ Apply(R.t)
            /\ kbd_pending' = R.q

Next ==
    \/ Boot
    \/ TerminalInit
    \/ TerminalSetColor
    \/ TerminalPutEntryAt
    \/ TerminalPutChar
    \/ TerminalWriteString
    \/ TerminalClear
    \/ TerminalSetPos
    \/ TerminalWriteStringAt
    \/ KeyEvent
    \/ HandleKeyboard

Spec == Init /\ [][Next]_vars

---------------------------------------------------------------------------
(* WrapSpec: terminal_init, then terminal_putchar only                     *)

\* the characters are written in rotation, starting from any of them
NextChar(c) == IF c = 65 THEN 10 ELSE IF c = 10 THEN -56 ELSE 65

WrapPutChar ==
    \E c \in Chars :
        /\ pc = "run"
        /\ steps < SCREEN_CELLS + WrapExtra
        /\ last[1] = "putchar" => c = NextChar(last[2])
        /\ steps' = steps + 1
        /\ last' = << "putchar", c >>
        /\ Apply(terminal_putchar(Term, c))
        /\ UNCHANGED <<current_tab, kbd_pending, pc, shown>>

WrapNext ==
    \/ Boot
    \/ WrapPutChar

WrapSpec == Init /\ [][WrapNext]_vars

---------------------------------------------------------------------------
(* TabSpec: the tab round trip  switch_to(A); write X; switch_to(B);       *)
(* write Y; switch_to(A).  switch_to is not in the source: it is the       *)
(* operation of section 4.3 of the specification, on the tabs and          *)
(* current_tab the source declares.                                        *)

Tabs == 0 .. (TAB_COUNT - 1)

\* current_tab = index, then every cell of tabs[index].buffer is written to
\* video memory
SwitchTo(index) ==
    /\ current_tab' = index
    /\ terminal_buffer' = [i \in Cells |-> tabs[index].buffer[i]]
    /\ UNCHANGED <<terminal_row, terminal_column, terminal_color, kbd_pending>>

TabSwitchA ==
    \E a \in Tabs :
        /\ pc = "run"
        /\ pc' = "A"
        /\ SwitchTo(a)
        /\ last' = << "switch_to", a >>
        /\ UNCHANGED <<steps, shown>>

TabWriteX ==
    \E s \in Strings :
        /\ pc = "A"
        /\ pc' = "AX"
        /\ Apply(terminal_writestring(Term, s))
        /\ last' = << "writestring", s >>
        /\ shown' = [tab |-> current_tab, grid |-> terminal_buffer']
        /\ UNCHANGED <<current_tab, kbd_pending, steps>>

TabSwitchB ==
    \E b \in Tabs \ {current_tab} :
        /\ pc = "AX"
        /\ pc' = "B"
        /\ SwitchTo(b)
        /\ last' = << "switch_to", b >>
        /\ UNCHANGED <<steps, shown>>

TabWriteY ==
    \E s \in Strings :
        /\ pc = "B"
        /\ pc' = "BY"
        /\ Apply(terminal_writestring(Term, s))
        /\ last' = << "writestring", s >>
        /\ UNCHANGED <<current_tab, kbd_pending, steps, shown>>

TabSwitchBack ==
    /\ pc = "BY"
    /\ pc' = "done"
    /\ SwitchTo(shown.tab)
    /\ last' = << "switch_to", shown.tab >>
    /\ UNCHANGED <<steps, shown>>

TabNext ==
    \/ Boot
    \/ TabSwitchA
    \/ TabWriteX
    \/ TabSwitchB
    \/ TabWriteY
    \/ TabSwitchBack

TabSpec == Init /\ [][TabNext]_vars

---------------------------------------------------------------------------
(* PackSpec: terminal_init, then one terminal_putentryat of a character     *)
(* code in a colour made by vga_entry_color from two vga_color values      *)

\* the values of a char
CharCodes == (-128) .. 127

\* enum vga_color
VgaColors == VGA_COLOR_BLACK .. VGA_COLOR_WHITE

\* the character codes packed with every colour pair
PackCodes == { -128, -56, -1, 0, 10, 32, 65, 127 }

\* the (fg, bg) pairs packed with every character code
PackPairs == { << 15, 0 >>, << 14, 1 >>, << 0, 15 >>, << 15, 15 >> }

PackAt(c, fg, bg) ==
    /\ pc = "run"
    /\ pc' = "packed"
    /\ Apply(terminal_putentryat(Term, c, vga_entry_color(fg, bg), 3, 2))
    /\ last' = << "putentryat", c, fg, bg, 3, 2 >>
    /\ UNCHANGED <<current_tab, kbd_pending, steps, shown>>

\* one character code of PackCodes in any of the 256 colour pairs
PackEntry ==
    \E c \in PackCodes, fg \in VgaColors, bg \in VgaColors : PackAt(c, fg, bg)

\* any of the 256 character codes in one colour pair of PackPairs
PackChar ==
    \E c \in CharCodes, p \in PackPairs : PackAt(c, p[1], p[2])

PackNext ==
    \/ Boot
    \/ PackEntry
    \/ PackChar

PackSpec == Init /\ [][PackNext]_vars

---------------------------------------------------------------------------
(* StrSpec: after terminal_init, terminal_setcolor and terminal_setpos,    *)
(* the characters of a string are put by one terminal_putchar call each    *)
(* up to its first zero byte                                               *)

\* more characters than the grid has cells
StrLong ==
    [i \in 1 .. (SCREEN_CELLS + 4) |->
        IF i <= SCREEN_CELLS + 3 THEN 33 + (i % 90) ELSE 0]

\* the strings written, by name
StrInputs ==
    [empty |-> StrEmpty, hi |-> StrHi, cut |-> StrCut, long |-> StrLong]

\* the string of entry
StrOf(entry) == StrInputs[entry[2]]

StrStarts == { <<0, 0>>, <<VGA_WIDTH - 2, VGA_HEIGHT - 1>> }

\* the terminal before the first character of the string of entry is put
StrStartState(entry) ==
    terminal_setpos(terminal_setcolor(terminal_init(Term), entry[5]),
                    entry[3], entry[4])

StrBegin ==
    \E s \in DOMAIN StrInputs, p \in StrStarts, color \in Colors :
        /\ pc = "run"
        /\ pc' = "each"
        /\ last' = << "each", s, p[1], p[2], color, 0 >>
        /\ Apply(StrStartState(last'))
        /\ UNCHANGED <<current_tab, kbd_pending, steps, shown>>

\* terminal_putchar(data[i]) for the next character before the terminator
StrPutChar ==
    /\ pc = "each"
    /\ StrOf(last)[last[6] + 1] # 0
    /\ Apply(terminal_putchar(Term, StrOf(last)[last[6] + 1]))
    /\ last' = [last EXCEPT ![6] = last[6] + 1]
    /\ UNCHANGED <<pc, current_tab, kbd_pending, steps, shown>>

\* the next byte is the terminator: no further call
StrEnd ==
    /\ pc = "each"
    /\ StrOf(last)[last[6] + 1] = 0
    /\ pc' = "done"
    /\ UNCHANGED <<terminal_row, terminal_column, terminal_color,
                   terminal_buffer, current_tab, kbd_pending, steps, last,
                   shown>>

StrNext ==
    \/ Boot
    \/ StrBegin
    \/ StrPutChar
    \/ StrEnd

StrSpec == Init /\ [][StrNext]_vars

---------------------------------------------------------------------------
(* KernelSpec: kernel_main, with the keyboard controller receiving scan    *)
(* codes at any time                                                       *)

\* scan codes received at most
MaxKeys == 2

\* "Hello, kernel World!\n" and its terminator
Hello ==
    << 72, 101, 108, 108, 111, 44, 32, 107, 101, 114, 110, 101, 108, 32,
       87, 111, 114, 108, 100, 33, 10, 0 >>

\* scan codes: 'a', Enter, Backspace and Tab pressed, 'a' released
KernelCodes == { 30, 28, 14, 15, 158 }

\* terminal_init();
KernelInit ==
    /\ pc = "boot"
    /\ pc' = "hello"
    /\ Apply(terminal_init(Term))
    /\ last' = << "init" >>
    /\ UNCHANGED <<current_tab, kbd_pending, steps, shown>>

\* the number of characters of Hello written so far
HelloIndex == IF last[1] = "write" THEN last[2] ELSE 0

\* terminal_writestring("Hello, kernel World!\n"): one turn of the loop of
\* terminal_write, for (i = 0; i < size; i++) terminal_putchar(data[i]),
\* with size = k_strlen(data)
KernelHello ==
    /\ pc = "hello"
    /\ HelloIndex < k_strlen(Hello)
    /\ Apply(terminal_putchar(Term, Hello[HelloIndex + 1]))
    /\ last' = << "write", HelloIndex + 1 >>
    /\ UNCHANGED <<pc, current_tab, kbd_pending, steps, shown>>

\* i = size: terminal_writestring returns and kernel_main enters its loop
KernelEnterLoop ==
    /\ pc = "hello"
    /\ HelloIndex = k_strlen(Hello)
    /\ pc' = "loop"
    /\ last' = << "writestring" >>
    /\ UNCHANGED <<terminal_row, terminal_column, terminal_color,
                   terminal_buffer, current_tab, kbd_pending, steps, shown>>

\* as the loop body of KernelPoll, with terminal_init called again before
\* each handle_keyboard
kernel_loop_body_reinit(K, status) ==
    handle_keyboard([t |-> terminal_init(K.t), q |-> K.q], status)

\* the body of while (1): handle_keyboard();
kernel_loop_body(K, status) == handle_keyboard(K, status)

KernelPoll ==
    \E hi \in StatusHighBits :
        LET st == StatusRegister(kbd_pending, hi)
            R == kernel_loop_body([t |-> Term, q |-> kbd_pending], st)
        IN  /\ pc = "loop"
            /\ Apply(R.t)
            /\ kbd_pending' = R.q
            /\ last' = << "handle_keyboard", st, kbd_pending >>
            /\ UNCHANGED <<pc, current_tab, steps, shown>>

\* the keyboard controller receives a scan code; steps counts them
KernelKeyEvent ==
    \E sc \in KernelCodes :
        /\ steps < MaxKeys
        /\ Len(kbd_pending) < MaxPending
        /\ steps' = steps + 1
        /\ kbd_pending' = Append(kbd_pending, sc)
        /\ UNCHANGED <<terminal_row, terminal_column, terminal_color,
                       terminal_buffer, current_tab, pc, last, shown>>

\* the steps of the program
KernelStep ==
    \/ KernelInit
    \/ KernelHello
    \/ KernelEnterLoop
    \/ KernelPoll

KernelNext ==
    \/ KernelInit
    \/ KernelHello
    \/ KernelEnterLoop
    \/ KernelPoll
    \/ KernelKeyEvent

KernelSpec == Init /\ [][KernelNext]_vars

\* the processor keeps executing the program
KernelFairSpec == KernelSpec /\ WF_vars(KernelStep)

---------------------------------------------------------------------------
(* The claims                                                              *)

\* a table entry that stands for "no character": 0, or one of the F-key
\* entries -1 .. -9 (held as 255 .. 247 in the unsigned char table)
IsSentinel(entry) == entry = 0 \/ ToChar(entry) \in (-9) .. (-1)

\* C1: once terminal_init has run, the cursor stays inside the grid
\* (0 <= terminal_column < 80, 0 <= terminal_row < 25) whatever in-bounds
\* calls are made, so the cell terminal_putchar writes has an index in
\* 0..1999.
CursorInBounds ==
    pc = "run" =>
        /\ terminal_column \in 0 .. (VGA_WIDTH - 1)
        /\ terminal_row \in 0 .. (VGA_HEIGHT - 1)
        /\ (terminal_row * VGA_WIDTH + terminal_column) \in Cells
        /\ DOMAIN terminal_buffer = Cells

\* a terminal_putchar at the last cell of the grid has wrapped to (0,0)
CursorWrapped ==
    /\ pc = "run"
    /\ last[1] = "putchar"
    /\ terminal_row = 0
    /\ terminal_column = 0
    /\ terminal_buffer[SCREEN_CELLS - 1] = vga_entry(ToUChar(last[2]), terminal_color)

\* C2: a press of a scan code whose table entry is a sentinel changes
\* neither the grid nor the cursor.
SentinelPressIgnored ==
    [][(/\ HandleKeyboard
        /\ kbd_pending # << >>
        /\ BitAnd(Head(kbd_pending), 128) = 0
        /\ IsSentinel(keyboard_map[Head(kbd_pending)]))
       => UNCHANGED <<terminal_buffer, terminal_row, terminal_column>>]_vars

\* C3: after switch_to(A); write X; switch_to(B); write Y; switch_to(A)
\* video memory equals, cell for cell, the grid drawn for tab A by the
\* write of X.
TabRoundTrip ==
    pc = "done" => terminal_buffer = shown.grid

\* C4: exactly one tab is active and video memory equals the grid of
\* tabs[current_tab], cell for cell.
SinkShowsActiveTab ==
    pc = "run" =>
        /\ current_tab \in 0 .. (TAB_COUNT - 1)
        /\ \A i \in Cells : terminal_buffer[i] = tabs[current_tab].buffer[i]

\* C5: from cursor (0,0), after n calls of terminal_putchar the cursor is
\* at (0,0) exactly when n is a multiple of width*height: it is back after
\* 2000 calls and after no smaller positive number of calls.
WrapLaw ==
    pc = "run" =>
        ((terminal_row = 0 /\ terminal_column = 0) <=> (steps % SCREEN_CELLS = 0))

\* the 2000th call has been made
WrapTurnDone ==
    /\ pc = "run"
    /\ last[1] = "putchar"
    /\ steps = SCREEN_CELLS
    /\ terminal_row = 0
    /\ terminal_column = 0

\* C6: terminal_writestring of a string of exactly width characters, with
\* the cursor at (0,0), leaves the cursor at column 0 of row 1.
LineWrap ==
    [][(/\ TerminalWriteString
        /\ terminal_row = 0
        /\ terminal_column = 0
        /\ k_strlen(last'[2]) = VGA_WIDTH)
       => (terminal_column' = 0 /\ terminal_row' = 1)]_vars

\* a full line has been written from (0,0)
LineWritten ==
    /\ last = << "writestring", StrLine >>
    /\ terminal_row = 1
    /\ terminal_column = 0
    /\ \A x \in 0 .. (VGA_WIDTH - 1) :
           terminal_buffer[x] = vga_entry(120, terminal_color)

\* C7: when handle_keyboard reads a scan code with bit 7 set, the grid,
\* the cursor and the current colour are unchanged: on every such step of
\* the program, and for each of the scan codes 128..255 read in the state
\* a handle_keyboard step starts from.
KeyReleaseDiscarded ==
    [][HandleKeyboard
       => /\ (kbd_pending # << >> /\ BitAnd(Head(kbd_pending), 128) # 0)
             => UNCHANGED <<terminal_buffer, terminal_row, terminal_column,
                            terminal_color>>
          /\ \A sc \in 128 .. 255 :
                handle_keyboard([t |-> Term, q |-> << sc >>], 1)
                = [t |-> Term, q |-> << >>]]_vars

\* handle_keyboard has read a release code
KeyReleaseRead ==
    /\ last[1] = "handle_keyboard"
    /\ last[3] # << >>
    /\ Head(last[3]) >= 128
    /\ Len(kbd_pending) = Len(last[3]) - 1

\* C8: when handle_keyboard reads a press whose table entry c is not a
\* sentinel, the cell at the cursor becomes (c, current colour), no other
\* cell changes, the colour is unchanged and the cursor advances by one
\* position, wrapping at the end of the row and of the grid: on every such
\* step of the program, and for each such scan code read in the state a
\* handle_keyboard step starts from.
KeyPressForwarded ==
    [][HandleKeyboard
       => LET at == terminal_row * VGA_WIDTH + terminal_column
              nxt == (at + 1) % SCREEN_CELLS
          IN  /\ (/\ kbd_pending # << >>
                  /\ BitAnd(Head(kbd_pending), 128) = 0
                  /\ ~IsSentinel(keyboard_map[Head(kbd_pending)]))
                 => /\ terminal_buffer' =
                          [terminal_buffer EXCEPT
                              ![at] = keyboard_map[Head(kbd_pending)]
                                      + 256 * terminal_color]
                    /\ terminal_row' = nxt \div VGA_WIDTH
                    /\ terminal_column' = nxt % VGA_WIDTH
                    /\ terminal_color' = terminal_color
              /\ \A sc \in 0 .. 127 :
                    ~IsSentinel(keyboard_map[sc])
                    => handle_keyboard([t |-> Term, q |-> << sc >>], 1)
                       = [t |-> [row |-> nxt \div VGA_WIDTH,
                                 col |-> nxt % VGA_WIDTH,
                                 color |-> terminal_color,
                                 buf |-> [terminal_buffer EXCEPT
                                             ![at] = keyboard_map[sc]
                                                     + 256 * terminal_color]],
                          q |-> << >>]]_vars

\* the press of 'a' has been drawn in a colour set by terminal_setcolor
KeyPressDrawn ==
    /\ last[1] = "handle_keyboard"
    /\ last[3] # << >>
    /\ Head(last[3]) = 30
    /\ terminal_color = 30
    /\ \E i \in Cells : terminal_buffer[i] = 97 + 256 * 30

\* C9: terminal_clear leaves every cell blank in the current colour (not
\* the default one), the colour unchanged and the cursor at (0,0); a second
\* terminal_clear changes nothing.
ClearIdempotent ==
    [][TerminalClear
       => /\ \A i \in Cells : terminal_buffer'[i] = 32 + 256 * terminal_color
          /\ terminal_color' = terminal_color
          /\ terminal_row' = 0
          /\ terminal_column' = 0
          /\ terminal_clear([row |-> terminal_row', col |-> terminal_column',
                             color |-> terminal_color', buf |-> terminal_buffer'])
             = [row |-> terminal_row', col |-> terminal_column',
                color |-> terminal_color', buf |-> terminal_buffer']
          /\ (last[1] = "clear" =>
                UNCHANGED <<terminal_buffer, terminal_row, terminal_column,
                            terminal_color>>)]_vars

\* the grid has been cleared in a colour other than the default
ClearedInColor ==
    /\ last = << "clear" >>
    /\ terminal_color = 30
    /\ terminal_buffer[0] = 32 + 256 * 30
    /\ terminal_buffer[SCREEN_CELLS - 1] = 32 + 256 * 30

\* C10: terminal_writestring_at(s, x, y) leaves the grid, the cursor and
\* the colour that terminal_setpos(x, y) followed by terminal_writestring(s)
\* leaves.
WriteStringAtComposes ==
    [][TerminalWriteStringAt
       => [row |-> terminal_row', col |-> terminal_column',
           color |-> terminal_color', buf |-> terminal_buffer']
          = terminal_writestring(
                terminal_setpos(Term, last'[3], last'[4]), last'[2])]_vars

\* a string has been written at (3,2)
WrittenAt ==
    /\ last = << "writestring_at", StrHi, 3, 2 >>
    /\ terminal_row = 2
    /\ terminal_column = 5
    /\ terminal_buffer[2 * VGA_WIDTH + 3] = 72 + 256 * terminal_color
    /\ terminal_buffer[2 * VGA_WIDTH + 4] = 105 + 256 * terminal_color

\* C11: terminal_putentryat(c, color, x, y) changes neither terminal_row
\* nor terminal_column nor the current colour; it changes only the cell at
\* index y*80+x, which becomes (c, color).
DirectWriteBypass ==
    [][TerminalPutEntryAt
       => /\ UNCHANGED <<terminal_row, terminal_column, terminal_color>>
          /\ terminal_buffer' =
                [terminal_buffer EXCEPT
                    ![last'[5] * VGA_WIDTH + last'[4]] =
                        (last'[2] % 256) + 256 * last'[3]]]_vars

\* a cell away from the cursor has been written in a colour that is not
\* the current one
DirectWritten ==
    /\ last = << "putentryat", 65, 30, 3, 2 >>
    /\ terminal_row = VGA_HEIGHT - 1
    /\ terminal_column = VGA_WIDTH - 1
    /\ terminal_color = 15
    /\ terminal_buffer[2 * VGA_WIDTH + 3] = 65 + 256 * 30

\* C12: the 16-bit cell written for character code c (a char, negative for
\* the codes 128..255) in the colour of foreground fg and background bg has
\* low byte c mod 256 and high byte bg*16 + fg: the character does not
\* alter the attribute byte, which is a value in 0..255.
PackingExact ==
    /\ pc = "packed" =>
        LET cell == terminal_buffer[last[6] * VGA_WIDTH + last[5]]
            code == IF last[2] < 0 THEN last[2] + 256 ELSE last[2]
        IN  /\ cell \in 0 .. 65535
            /\ cell % 256 = code
            /\ cell \div 256 = last[4] * 16 + last[3]
            /\ (cell \div 256) \in 0 .. 255
    /\ pc = "run" =>
        \A c \in CharCodes, fg \in VgaColors, bg \in VgaColors :
            LET cell == terminal_putentryat(Term, c, vga_entry_color(fg, bg),
                                            3, 2).buf[2 * VGA_WIDTH + 3]
            IN  /\ cell % 256 = (c + 256) % 256
                /\ cell \div 256 = bg * 16 + fg

\* a code above 127 has been packed with yellow on blue
NegativeCharPacked ==
    /\ pc = "packed"
    /\ last[2] = -56
    /\ last[3] = 14
    /\ last[4] = 1
    /\ terminal_buffer[2 * VGA_WIDTH + 3] = 200 + 256 * 30

\* C13: terminal_putchar(c) with the cursor at (col, row) inside the grid
\* writes the cell (c, current colour) at index row*80+col, the position of
\* the cursor before the advance, leaves every other cell and the current
\* colour unchanged, and then advances: the column increments; when it
\* reaches 80 it resets to 0 and the row increments; when the row reaches
\* 25 it resets to 0.
PutCharWritesThenAdvances ==
    [][TerminalPutChar
       => /\ terminal_buffer' =
                [terminal_buffer EXCEPT
                    ![terminal_row * VGA_WIDTH + terminal_column] =
                        ((last'[2] + 256) % 256) + 256 * terminal_color]
          /\ terminal_color' = terminal_color
          /\ terminal_column' =
                IF terminal_column + 1 = VGA_WIDTH THEN 0
                ELSE terminal_column + 1
          /\ terminal_row' =
                IF terminal_column + 1 < VGA_WIDTH THEN terminal_row
                ELSE IF terminal_row + 1 = VGA_HEIGHT THEN 0
                ELSE terminal_row + 1]_vars

\* a character has been put at (3,2) and the cursor stands one column on
PutCharAtCursor ==
    /\ last = << "putchar", 10 >>
    /\ terminal_row = 2
    /\ terminal_column = 4
    /\ terminal_color = 15
    /\ terminal_buffer[2 * VGA_WIDTH + 3] = 10 + 256 * 15
    /\ terminal_buffer[2 * VGA_WIDTH + 4] = 32 + 256 * 15

\* C14: terminal_init, from any state, puts the cursor at (0,0), sets the
\* current colour to white on black (0x0F) and leaves every one of the
\* 80*25 cells equal to ' ' packed with that colour.
InitResets ==
    [][(Boot \/ TerminalInit)
       => /\ terminal_row' = 0
          /\ terminal_column' = 0
          /\ terminal_color' = 15
          /\ DOMAIN terminal_buffer' = 0 .. (VGA_WIDTH * VGA_HEIGHT - 1)
          /\ \A i \in 0 .. (VGA_WIDTH * VGA_HEIGHT - 1) :
                terminal_buffer'[i] = 32 + 256 * 15]_vars

\* terminal_init has run again after two other calls
InitAfterCalls ==
    /\ last = << "init" >>
    /\ steps = 3
    /\ terminal_row = 0
    /\ terminal_column = 0
    /\ terminal_color = 15
    /\ terminal_buffer[2 * VGA_WIDTH + 3] = 32 + 256 * 15

\* C15: terminal_setcolor(a) changes only the current colour, to a: no
\* cell and no cursor coordinate changes.  The current colour then changes
\* only at a terminal_setcolor or a terminal_init, and every
\* terminal_putchar writes its cell with the current colour as attribute.
SetColorOnly ==
    [][/\ TerminalSetColor
            => /\ UNCHANGED <<terminal_buffer, terminal_row, terminal_column>>
               /\ terminal_color' = last'[2]
       /\ terminal_color' # terminal_color
            => last'[1] \in { "init", "setcolor" }
       /\ TerminalPutChar
            => terminal_buffer'[terminal_row * VGA_WIDTH + terminal_column]
                    \div 256 = terminal_color]_vars

\* after terminal_setcolor(30) and a move, a character has been put in
\* colour 30 while the cells written before keep their colour
SetColorUsed ==
    /\ last = << "putchar", 65 >>
    /\ terminal_color = 30
    /\ terminal_row = 2
    /\ terminal_column = 4
    /\ terminal_buffer[2 * VGA_WIDTH + 3] = 65 + 256 * 30
    /\ terminal_buffer[0] = 32 + 256 * 15

\* C16: terminal_writestring(s) leaves the grid, the cursor and the colour
\* that one terminal_putchar call per character of s, in order and stopping
\* at the first zero byte, leave: the zero byte and the bytes after it are
\* not written, and a string of more characters than the grid has cells
\* wraps and overwrites the grid from (0,0) on.
WriteStringIsPutCharEach ==
    pc = "done" =>
        /\ Term = terminal_writestring(StrStartState(last), StrOf(last))
        /\ StrOf(last)[last[6] + 1] = 0
        /\ \A j \in 1 .. last[6] : StrOf(last)[j] # 0
        /\ (last[2] = "long" /\ last[3] = 0 /\ last[4] = 0) =>
                /\ terminal_row = 0
                /\ terminal_column = 3
                /\ \A i \in 0 .. 2 :
                        terminal_buffer[i] =
                            StrLong[SCREEN_CELLS + i + 1] + 256 * last[5]
                /\ \A i \in 3 .. (SCREEN_CELLS - 1) :
                        terminal_buffer[i] = StrLong[i + 1] + 256 * last[5]

\* the string longer than the grid has been put character by character
\* from (0,0) and its last three characters stand in cells 0..2
LongStringWrapped ==
    /\ pc = "done"
    /\ last[2] = "long"
    /\ last[6] = SCREEN_CELLS + 3
    /\ terminal_row = 0
    /\ terminal_column = 3
    /\ terminal_buffer[0] = StrLong[SCREEN_CELLS + 1] + 256 * 30
    /\ terminal_buffer[3] = StrLong[4] + 256 * 30

\* C17: a call of handle_keyboard reads the status register once.  With
\* bit 0 clear it returns without reading the data register, so that a
\* waiting scan code stays there, and without changing grid, cursor or
\* colour; with bit 0 set it reads exactly one scan code and makes at most
\* one terminal_putchar: either nothing of the terminal changes, or the
\* cell at the cursor is written in the current colour and the cursor
\* advances by one position.
PollReadsOneByte ==
    [][HandleKeyboard
       => LET status == last'[2]
              at == terminal_row * VGA_WIDTH + terminal_column
              nxt == (at + 1) % SCREEN_CELLS
          IN  /\ status % 2 = 0
                 => UNCHANGED <<kbd_pending, terminal_buffer, terminal_row,
                                terminal_column, terminal_color>>
              /\ status % 2 = 1
                 => /\ kbd_pending # << >>
                    /\ kbd_pending' = Tail(kbd_pending)
                    /\ terminal_color' = terminal_color
                    /\ \/ UNCHANGED <<terminal_buffer, terminal_row,
                                      terminal_column>>
                       \/ /\ terminal_buffer' =
                                [terminal_buffer EXCEPT
                                    ![at] = terminal_buffer'[at]]
                          /\ terminal_buffer'[at] \div 256 = terminal_color
                          /\ terminal_row' = nxt \div VGA_WIDTH
                          /\ terminal_column' = nxt % VGA_WIDTH
              /\ \A sc \in 0 .. 255, hi \in { 0, 254 } :
                    handle_keyboard([t |-> Term, q |-> << sc >>], hi)
                    = [t |-> Term, q |-> << sc >>]]_vars

\* handle_keyboard has polled a status register with bit 0 clear and other
\* bits set
IdlePoll ==
    /\ last[1] = "handle_keyboard"
    /\ last[2] = 28
    /\ last[3] = << >>
    /\ kbd_pending = << >>
    /\ steps >= 2

\* C18: kernel_main runs terminal_init once, before the first poll, and
\* then polls handle_keyboard forever: a step of the program is possible in
\* every state, inside the loop the program stays in the loop and a step
\* changes no colour and no cell but the one at the cursor (the display is
\* never reset), and, the program being executed fairly, every scan code
\* the keyboard controller received is eventually read.
KernelPollsForever ==
    /\ [](ENABLED KernelStep)
    /\ [][/\ pc # "boot"
                => /\ pc' # "boot"
                   /\ last' = << "init" >> => last = << "init" >>
          /\ pc = "loop"
                => /\ pc' = "loop"
                   /\ terminal_color' = terminal_color
                   /\ terminal_buffer' =
                        [terminal_buffer EXCEPT
                            ![terminal_row * VGA_WIDTH + terminal_column] =
                                terminal_buffer'[terminal_row * VGA_WIDTH
                                                 + terminal_column]]]_vars
    /\ \A n \in 1 .. MaxKeys :
            (steps >= n) ~> (steps - Len(kbd_pending) >= n)

\* the loop has read the press of 'a' and drawn it after the greeting
KeyReadInLoop ==
    /\ pc = "loop"
    /\ last[1] = "handle_keyboard"
    /\ last[3] # << >>
    /\ Head(last[3]) = 30
    /\ steps - Len(kbd_pending) >= 1
    /\ terminal_buffer[0] = 72 + 256 * 15
    /\ terminal_buffer[21] = 97 + 256 * 15

\* C19: terminal_putchar treats no character specially: for every
\* character code, '\n' (10), '\t' (9) and '\b' (8) included, it stores the
\* code in the cell at the cursor and advances the column by one.  When
\* kernel_main enters its loop after writing "Hello, kernel World!\n", the
\* cursor is at column 21 of row 0, cells 0..20 hold the 21 characters of
\* the string with attribute 0x0F, cell 20 holding code 10, and all other
\* cells are blank.
ControlCharsStored ==
    pc = "loop" =>
        /\ \A c \in CharCodes :
                terminal_putchar(Term, c) =
                    [row |-> terminal_row,
                     col |-> terminal_column + 1,
                     color |-> terminal_color,
                     buf |-> [terminal_buffer EXCEPT
                                ![terminal_row * VGA_WIDTH + terminal_column] =
                                    ((c + 256) % 256) + 256 * terminal_color]]
        /\ last = << "writestring" >> =>
                /\ terminal_column = 21
                /\ terminal_row = 0
                /\ terminal_color = 15
                /\ \A i \in 0 .. 20 : terminal_buffer[i] = Hello[i + 1] + 256 * 15
                /\ terminal_buffer[0] = 72 + 256 * 15
                /\ terminal_buffer[20] = 10 + 256 * 15
                /\ \A i \in 21 .. (VGA_WIDTH * VGA_HEIGHT - 1) :
                        terminal_buffer[i] = 32 + 256 * 15

\* kernel_main has entered its loop with the greeting on the first row
GreetingShown ==
    /\ pc = "loop"
    /\ last = << "writestring" >>
    /\ terminal_column = 21
    /\ terminal_row = 0
    /\ terminal_buffer[19] = 33 + 256 * 15
    /\ terminal_buffer[20] = 10 + 256 * 15
    /\ terminal_buffer[VGA_WIDTH] = 32 + 256 * 15

===========================================================================
